---- MODULE Spec2Model ----
(***************************************************************************)
(* Cinema Matcher (scripts-scraper/cinema_matcher.py).                     *)
(*                                                                         *)
(* Titles are sequences of one-character strings.  Two code points that    *)
(* are not ASCII are written by their code point names: "U+0130" (LATIN    *)
(* CAPITAL LETTER I WITH DOT ABOVE) and "U+0307" (COMBINING DOT ABOVE).    *)
(***************************************************************************)
EXTENDS Integers, Sequences, FiniteSets, TLC

(***************************************************************************)
(* Bounds of the model.                                                    *)
(***************************************************************************)
MaxCore == 2      \* free characters at the start of a generated title
MaxYears == 2     \* "-YYYY" groups after them
MaxList == 2      \* length of the exhaustively enumerated film/script lists
MaxBig == 11      \* length of the long film/script lists

(***************************************************************************)
(* Program constants.                                                      *)
(***************************************************************************)
YearDigits == 4   \* r'-\d{4}$'
SampleCap == 10   \* [:10]
ExampleCap == 5   \* [:5]

(***************************************************************************)
(* Characters: the classes \d, \w, \s of Python's re on str, str.lower()   *)
(* and str.strip(), restricted to the characters of the model.             *)
(***************************************************************************)
LowerLetters ==
    << "a", "b", "c", "d", "e", "f", "g", "h", "i", "j", "k", "l", "m",
       "n", "o", "p", "q", "r", "s", "t", "u", "v", "w", "x", "y", "z" >>

UpperLetters ==
    << "A", "B", "C", "D", "E", "F", "G", "H", "I", "J", "K", "L", "M",
       "N", "O", "P", "Q", "R", "S", "T", "U", "V", "W", "X", "Y", "Z" >>

DottedI == "U+0130"

CombiningDot == "U+0307"

Range(s) == { s[i] : i \in DOMAIN s }

LowerSet == Range(LowerLetters)

UpperSet == Range(UpperLetters)

DigitSet == { "0", "1", "2", "3", "4", "5", "6", "7", "8", "9" }

SpaceSet == { " ", "\t", "\n" }

\* \d
IsDigit(c) == c \in DigitSet

\* \w
IsWordChar(c) ==
    \/ c \in LowerSet
    \/ c \in UpperSet
    \/ c \in DigitSet
    \/ c = "_"
    \/ c = DottedI

\* \s, and the characters str.strip() removes
IsSpaceChar(c) == c \in SpaceSet

LowerOfUpper ==
    [c \in UpperSet |->
        LowerLetters[CHOOSE i \in DOMAIN UpperLetters : UpperLetters[i] = c]]

\* str.lower() of one character: a sequence, since U+0130 lowers to two.
LowerChar(c) ==
    IF c \in UpperSet
    THEN << LowerOfUpper[c] >>
    ELSE IF c = DottedI THEN << "i", CombiningDot >> ELSE << c >>

(***************************************************************************)
(* normalize_title                                                         *)
(***************************************************************************)
\* s[from..to] is "-" followed by exactly YearDigits digits
IsYearGroup(s, from, to) ==
    /\ to - from = YearDigits
    /\ from >= 1
    /\ to <= Len(s)
    /\ s[from] = "-"
    /\ \A i \in (from + 1)..to : IsDigit(s[i])

\* a bug: every trailing year group is removed (r'(-\d{4})+$')
RECURSIVE RemoveYearGreedy(_)
RemoveYearGreedy(title) ==
    LET n == Len(title) IN
    IF IsYearGroup(title, n - YearDigits, n)
    THEN RemoveYearGreedy(SubSeq(title, 1, n - YearDigits - 1))
    ELSE IF n >= 1 /\ title[n] = "\n" /\ IsYearGroup(title, n - 1 - YearDigits, n - 1)
         THEN RemoveYearGreedy(SubSeq(title, 1, n - YearDigits - 2)) \o << "\n" >>
         ELSE title

\* re.sub(r'-\d{4}$', '', title): $ matches at the end of the string and
\* also just before a newline that is the last character.
RemoveYear(title) ==
    LET n == Len(title) IN
    IF IsYearGroup(title, n - YearDigits, n)
    THEN SubSeq(title, 1, n - YearDigits - 1)
    ELSE IF n >= 1 /\ title[n] = "\n" /\ IsYearGroup(title, n - 1 - YearDigits, n - 1)
         THEN SubSeq(title, 1, n - YearDigits - 2) \o << "\n" >>
         ELSE title

KeptChar(c) == IsWordChar(c) \/ IsSpaceChar(c)

\* re.sub(r'[^\w\s]', '', clean)
RemoveSpecial(clean) == SelectSeq(clean, KeptChar)

RECURSIVE Lower(_)
Lower(s) == IF s = << >> THEN << >> ELSE LowerChar(Head(s)) \o Lower(Tail(s))

RECURSIVE LStrip(_)
LStrip(s) ==
    IF s # << >> /\ IsSpaceChar(Head(s)) THEN LStrip(Tail(s)) ELSE s

RECURSIVE RStrip(_)
RStrip(s) ==
    IF s # << >> /\ IsSpaceChar(s[Len(s)]) THEN RStrip(SubSeq(s, 1, Len(s) - 1)) ELSE s

Strip(s) == RStrip(LStrip(s))

normalize_title(title) == Strip(Lower(RemoveSpecial(RemoveYear(title))))

(***************************************************************************)
(* The lookup mappings of create_matching_index: a Python dict keeps its   *)
(* keys in insertion order, and assigning to a key that is present keeps   *)
(* the key's place and replaces its value.  A dict is a sequence of        *)
(* [key, value] records with distinct keys.                                *)
(***************************************************************************)
DictHas(d, k) == \E i \in DOMAIN d : d[i].key = k

DictGet(d, k) == d[CHOOSE i \in DOMAIN d : d[i].key = k].value

\* a bug: the first identifier of a key is kept (dict.setdefault)
DictPutFirstWins(d, k, v) ==
    IF DictHas(d, k) THEN d ELSE Append(d, [key |-> k, value |-> v])

\* a bug: a list of pairs instead of a dict, colliding keys are all kept
DictPutAppend(d, k, v) == Append(d, [key |-> k, value |-> v])

\* d[k] = v
DictPut(d, k, v) ==
    IF DictHas(d, k)
    THEN [i \in DOMAIN d |-> IF d[i].key = k THEN [key |-> k, value |-> v] ELSE d[i]]
    ELSE Append(d, [key |-> k, value |-> v])

\* {normalize_title(x): x for x in items}
RECURSIVE BuildIndex(_)
BuildIndex(items) ==
    IF items = << >>
    THEN << >>
    ELSE LET last == items[Len(items)] IN
         DictPut(BuildIndex(SubSeq(items, 1, Len(items) - 1)),
                 normalize_title(last), last)

\* a bug: the two identifiers of a match record are exchanged
RECURSIVE MatchRecordsSwapped(_, _)
MatchRecordsSwapped(script_index, film_index) ==
    IF script_index = << >>
    THEN << >>
    ELSE LET e == Head(script_index) IN
         (IF DictHas(film_index, e.key)
          THEN << [script |-> DictGet(film_index, e.key),
                   film |-> e.value,
                   normalized |-> e.key] >>
          ELSE << >>)
         \o MatchRecordsSwapped(Tail(script_index), film_index)

\* the matches.append branch of the loop over script_index.items()
RECURSIVE MatchRecords(_, _)
MatchRecords(script_index, film_index) ==
    IF script_index = << >>
    THEN << >>
    ELSE LET e == Head(script_index) IN
         (IF DictHas(film_index, e.key)
          THEN << [script |-> e.value,
                   film |-> DictGet(film_index, e.key),
                   normalized |-> e.key] >>
          ELSE << >>)
         \o MatchRecords(Tail(script_index), film_index)

\* the values of index whose key is not a key of other, in index order
RECURSIVE ValuesMissingFrom(_, _)
ValuesMissingFrom(index, other) ==
    IF index = << >>
    THEN << >>
    ELSE LET e == Head(index) IN
         (IF DictHas(other, e.key) THEN << >> ELSE << e.value >>)
         \o ValuesMissingFrom(Tail(index), other)

\* the unmatched_scripts.append branch of the loop over script_index.items()
UnmatchedScripts(script_index, film_index) ==
    ValuesMissingFrom(script_index, film_index)

\* the loop over film_index.items()
UnmatchedFilms(film_index, script_index) ==
    ValuesMissingFrom(film_index, script_index)

(***************************************************************************)
(* Statistics.  match_percentage is a Python float; the model keeps the    *)
(* exact quotient as [num, den].  A division by zero raises                *)
(* ZeroDivisionError, which the model keeps as the value DivisionByZero.   *)
(***************************************************************************)
DivisionByZero == [num |-> 0, den |-> 0]

\* (a / b) * 100
PercentOf(a, b) == IF b = 0 THEN DivisionByZero ELSE [num |-> a * 100, den |-> b]

\* a bug: the guard "if scripts" is missing
MatchPercentageUnguarded(matches, scripts) == PercentOf(Len(matches), Len(scripts))

\* (len(matches) / len(scripts)) * 100 if scripts else 0
MatchPercentage(matches, scripts) ==
    IF Len(scripts) # 0
    THEN PercentOf(Len(matches), Len(scripts))
    ELSE [num |-> 0, den |-> 1]

\* what create_matching_index returns for the loaded lists
MatchingIndex(films, scripts) ==
    LET film_index == BuildIndex(films)
        script_index == BuildIndex(scripts)
        matches == MatchRecords(script_index, film_index)
    IN  [ matches |-> matches,
          unmatched_scripts |-> UnmatchedScripts(script_index, film_index),
          unmatched_films |-> UnmatchedFilms(film_index, script_index),
          stats |-> [ total_films |-> Len(films),
                      total_scripts |-> Len(scripts),
                      matches_found |-> Len(matches),
                      match_percentage |-> MatchPercentage(matches, scripts) ] ]

NoResults ==
    [ matches |-> << >>, unmatched_scripts |-> << >>, unmatched_films |-> << >>,
      stats |-> [ total_films |-> 0, total_scripts |-> 0, matches_found |-> 0,
                  match_percentage |-> [num |-> 0, den |-> 1] ] ]

(***************************************************************************)
(* The report of generate_report.                                          *)
(***************************************************************************)
Take(list, n) == SubSeq(list, 1, IF Len(list) < n THEN Len(list) ELSE n)

\* a bug: the slice is missing
SampleUncut(list) == list

\* list[:10]
Sample(list) == Take(list, SampleCap)

Cwd == "cwd"

\* the report object, as the sequence of its top-level members in the order
\* json.dump writes them
Report(res) ==
    << [name |-> "timestamp", value |-> Cwd],
       [name |-> "summary", value |-> res.stats],
       [name |-> "matches", value |-> Sample(res.matches)],
       [name |-> "sample_unmatched_scripts", value |-> Sample(res.unmatched_scripts)],
       [name |-> "sample_unmatched_films", value |-> Sample(res.unmatched_films)] >>

ReportMembers ==
    << "timestamp", "summary", "matches", "sample_unmatched_scripts",
       "sample_unmatched_films" >>

\* a file holds a whole report: every member, in order
IsCompleteReport(file) ==
    /\ file.exists
    /\ Len(file.members) = Len(ReportMembers)
    /\ \A i \in DOMAIN ReportMembers : file.members[i].name = ReportMembers[i]

Member(file, name) ==
    file.members[CHOOSE i \in DOMAIN file.members : file.members[i].name = name].value

NoFile == [exists |-> FALSE, members |-> << >>]

\* the report a previous run left: that of a run with no films and no scripts
OldReportFile == [exists |-> TRUE, members |-> Report(NoResults)]

(***************************************************************************)
(* Titles the model draws from.                                            *)
(***************************************************************************)
Inception == << "I", "n", "c", "e", "p", "t", "i", "o", "n" >>

Year1999 == << "-", "1", "9", "9", "9" >>

Year2010 == << "-", "2", "0", "1", "0" >>

YearGroups == { Year1999, Year2010 }

TitleAlphabet == { "a", "A", "1", "-", "_", " ", "\n", DottedI }

TitleTails == { << >>, << "\n" >>, << " " >>, << "a" >> }

SeqsUpTo(S, n) == UNION { [1..k -> S] : k \in 0..n }

RECURSIVE Flatten(_)
Flatten(ss) == IF ss = << >> THEN << >> ELSE Head(ss) \o Flatten(Tail(ss))

Titles ==
    { core \o Flatten(years) \o tail :
        core \in SeqsUpTo(TitleAlphabet, MaxCore),
        years \in SeqsUpTo(YearGroups, MaxYears),
        tail \in TitleTails }
    \cup { Inception, Inception \o Year2010 }

(***************************************************************************)
(* Film lists and script lists the model draws from.                       *)
(***************************************************************************)
Matrix1999 == << "M", "a", "t", "r", "i", "x" >> \o Year1999

MatrixCap == << "M", "a", "t", "r", "i", "x" >>

MatrixLower == << "m", "a", "t", "r", "i", "x" >>

InceptionLower == << "i", "n", "c", "e", "p", "t", "i", "o", "n" >>

SmallPool == { Matrix1999, MatrixCap, MatrixLower, InceptionLower }

IsDistinct(list) == \A i, j \in DOMAIN list : i # j => list[i] # list[j]

\* a JSON array may repeat a string
SmallFilmLists == SeqsUpTo(SmallPool, MaxList)

\* the stems of the *.json files of one directory are distinct
SmallScriptLists == { l \in SeqsUpTo(SmallPool, MaxList) : IsDistinct(l) }

BigLetters == << "a", "b", "c", "d", "e" >>

BigScript(i) == << BigLetters[((i - 1) \div 5) + 1], BigLetters[((i - 1) % 5) + 1] >>

BigFilm(i) ==
    << UpperLetters[((i - 1) \div 5) + 1], BigLetters[((i - 1) % 5) + 1] >> \o Year1999

BigScriptList(n) == [i \in 1..n |-> BigScript(i)]

BigFilmList(lo, hi) == [i \in 1..(hi - lo + 1) |-> BigFilm(lo + i - 1)]

\* << films, scripts >>
ListPairs ==
    (SmallFilmLists \X SmallScriptLists)
    \cup { << BigFilmList(lo, hi), BigScriptList(n) >> :
             lo \in 1..(MaxBig + 1), hi \in 0..MaxBig, n \in 0..MaxBig }

\* film-slugs.json: absent, not JSON, an array with a member that is not a
\* string, or an array of strings
FilmFiles(items) ==
    { [kind |-> "strings", items |-> items] }
    \cup (IF items = << >>
          THEN { [kind |-> k, items |-> << >>] :
                   k \in { "missing", "malformed", "not_strings" } }
          ELSE { })

(***************************************************************************)
(* State.                                                                  *)
(***************************************************************************)
VARIABLES
    \* one run of the script
    filmFile,       \* film-slugs.json
    parsedDir,      \* the stems of parsed/*.json, in directory order
    reportFile,     \* cinema_matching_report.json
    reportBefore,   \* cinema_matching_report.json when the run started
    pc,             \* where the run is
    films,          \* load_films()
    scripts,        \* load_scripts()
    results,        \* what create_matching_index returned
    console,        \* the lines printed
    exc,            \* the exception raised, "" when none
    \* calls of normalize_title
    title,          \* normalize_title's argument
    suffix,         \* the year group appended to title in the second call
    key,            \* normalize_title(title)
    key2,           \* normalize_title(key)
    keyY,           \* normalize_title(title + suffix)
    npc             \* "input", "normalized", "renormalized", "suffixed"

varsRun ==
    << filmFile, parsedDir, reportFile, reportBefore, pc, films, scripts, results,
       console, exc >>

varsNorm == << title, suffix, key, key2, keyY, npc >>

vars == << varsRun, varsNorm >>

(***************************************************************************)
(* Spec: one run of the script, __main__.                                  *)
(***************************************************************************)
Init ==
    /\ \E pair \in ListPairs :
        /\ parsedDir = pair[2]
        /\ filmFile \in FilmFiles(pair[1])
    /\ reportFile \in { NoFile, OldReportFile }
    /\ reportBefore = reportFile
    /\ pc = "load_films"
    /\ films = << >>
    /\ scripts = << >>
    /\ results = NoResults
    /\ console = << >>
    /\ exc = ""
    /\ title = << >>
    /\ suffix = << >>
    /\ key = << >>
    /\ key2 = << >>
    /\ keyY = << >>
    /\ npc = "off"

Raise(e) ==
    /\ exc' = e
    /\ pc' = "raised"

\* load_films: open and json.load
LoadFilms ==
    /\ pc = "load_films"
    /\ IF filmFile.kind = "missing"
       THEN Raise("FileNotFoundError") /\ UNCHANGED films
       ELSE IF filmFile.kind = "malformed"
            THEN Raise("JSONDecodeError") /\ UNCHANGED films
            ELSE /\ films' = filmFile.items
                 /\ pc' = "load_scripts"
                 /\ UNCHANGED exc
    /\ UNCHANGED << filmFile, parsedDir, reportFile, reportBefore, scripts, results,
                    console, varsNorm >>

\* load_scripts: the stems of parsed/*.json
LoadScripts ==
    /\ pc = "load_scripts"
    /\ scripts' = parsedDir
    /\ pc' = "index"
    /\ UNCHANGED << filmFile, parsedDir, reportFile, reportBefore, films, results,
                    console, exc, varsNorm >>

\* create_matching_index after the two loads: the header, the two indexes,
\* the three lists and the statistics
CreateMatchingIndex ==
    /\ pc = "index"
    /\ console' = console \o << "HEADER", "FILMS_LOADED", "SCRIPTS_LOADED", "RULE" >>
    /\ IF filmFile.kind = "not_strings"
       THEN Raise("TypeError") /\ UNCHANGED results
       ELSE LET r == MatchingIndex(films, scripts) IN
            IF r.stats.match_percentage = DivisionByZero
            THEN Raise("ZeroDivisionError") /\ UNCHANGED results
            ELSE /\ results' = r
                 /\ pc' = "report"
                 /\ UNCHANGED exc
    /\ UNCHANGED << filmFile, parsedDir, reportFile, reportBefore, films, scripts,
                    varsNorm >>

\* generate_report up to open(..., 'w'): the summary is printed, the report is
\* built, and the file is created or truncated, unless open raises OSError
OpenReport ==
    /\ pc = "report"
    /\ console' = console \o << "RESULTS", "RULE", "MATCHES_FOUND", "PERCENTAGE",
                                "SCRIPTS_UNMATCHED", "FILMS_UNMATCHED", "RULE" >>
    /\ \/ /\ reportFile' = [exists |-> TRUE, members |-> << >>]
          /\ pc' = "dump"
          /\ UNCHANGED exc
       \/ /\ Raise("OSError")
          /\ UNCHANGED reportFile
    /\ UNCHANGED << filmFile, parsedDir, reportBefore, films, scripts, results,
                    varsNorm >>

\* json.dump writes the report piece by piece: the next member reaches the
\* file, or the write raises OSError and the file keeps what it holds
DumpMember ==
    /\ pc = "dump"
    /\ Len(reportFile.members) < Len(ReportMembers)
    /\ \/ /\ reportFile' =
                [reportFile EXCEPT
                    !.members = Append(@, Report(results)[Len(reportFile.members) + 1])]
          /\ UNCHANGED << pc, exc >>
       \/ /\ Raise("OSError")
          /\ UNCHANGED reportFile
    /\ UNCHANGED << filmFile, parsedDir, reportBefore, films, scripts, results,
                    console, varsNorm >>

\* generate_report after the with block: the file is saved, the examples are
\* printed and the results are returned
FinishReport ==
    /\ pc = "dump"
    /\ Len(reportFile.members) = Len(ReportMembers)
    /\ console' = console \o << "SAVED" >>
                  \o (IF results.matches # << >>
                      THEN << "EXAMPLES" >>
                           \o [i \in DOMAIN Take(results.matches, ExampleCap) |-> "EXAMPLE"]
                      ELSE << >>)
    /\ pc' = "returned"
    /\ UNCHANGED << filmFile, parsedDir, reportFile, reportBefore, films, scripts,
                    results, exc, varsNorm >>

\* __main__ after generate_report returns
Completed ==
    /\ pc = "returned"
    /\ console' = Append(console, "COMPLETED")
    /\ pc' = "done"
    /\ UNCHANGED << filmFile, parsedDir, reportFile, reportBefore, films, scripts,
                    results, exc, varsNorm >>

\* __main__: except Exception
HandleException ==
    /\ pc = "raised"
    /\ console' = Append(console, "ERROR")
    /\ pc' = "done"
    /\ UNCHANGED << filmFile, parsedDir, reportFile, reportBefore, films, scripts,
                    results, exc, varsNorm >>

Next ==
    \/ LoadFilms
    \/ LoadScripts
    \/ CreateMatchingIndex
    \/ OpenReport
    \/ DumpMember
    \/ FinishReport
    \/ Completed
    \/ HandleException

Spec == Init /\ [][Next]_vars

(***************************************************************************)
(* SpecNorm: calls of normalize_title on every title of Titles.            *)
(***************************************************************************)
InitNorm ==
    /\ title \in Titles
    /\ suffix = << >>
    /\ key = << >>
    /\ key2 = << >>
    /\ keyY = << >>
    /\ npc = "input"
    /\ filmFile = [kind |-> "missing", items |-> << >>]
    /\ parsedDir = << >>
    /\ reportFile = NoFile
    /\ reportBefore = NoFile
    /\ pc = "off"
    /\ films = << >>
    /\ scripts = << >>
    /\ results = NoResults
    /\ console = << >>
    /\ exc = ""

Normalize ==
    /\ npc = "input"
    /\ key' = normalize_title(title)
    /\ npc' = "normalized"
    /\ UNCHANGED << title, suffix, key2, keyY, varsRun >>

NormalizeKey ==
    /\ npc = "normalized"
    /\ key2' = normalize_title(key)
    /\ npc' = "renormalized"
    /\ UNCHANGED << title, suffix, key, keyY, varsRun >>

NormalizeSuffixed ==
    /\ npc = "normalized"
    /\ \E y \in YearGroups :
        /\ suffix' = y
        /\ keyY' = normalize_title(title \o y)
    /\ npc' = "suffixed"
    /\ UNCHANGED << title, key, key2, varsRun >>

NextNorm == Normalize \/ NormalizeKey \/ NormalizeSuffixed

SpecNorm == InitNorm /\ [][NextNorm]_vars

(***************************************************************************)
(* Claims about normalize_title.                                           *)
(***************************************************************************)
\* C7: normalize_title is idempotent: normalizing a key returns the key.
C7_Idempotent == npc = "renormalized" => key2 = key

\* C8 as stated: a title followed by a year group has the key of the title.
C8_SuffixIgnored == npc = "suffixed" => keyY = key

\* C8 as amended: the appended group alone is removed as a year, so the key
\* of title + "-YYYY" is the title with its punctuation removed, lowercased
\* and trimmed; it is the key of the title when the title itself ends in no
\* year group (one that the year-suffix removal would take off).
C8_OnlyAppendedYearRemoved ==
    npc = "suffixed" =>
        /\ keyY = Strip(Lower(RemoveSpecial(title)))
        /\ RemoveYear(title) = title => keyY = key

C8_Witness ==
    /\ npc = "suffixed"
    /\ title = Inception
    /\ suffix = Year2010
    /\ key = << "i", "n", "c", "e", "p", "t", "i", "o", "n" >>
    /\ keyY = key


(***************************************************************************)
(* Claims about a run.                                                     *)
(***************************************************************************)
\* create_matching_index has just returned: results holds its value
Indexed == pc = "report"

Occurrences(list, x) == Cardinality({ i \in DOMAIN list : list[i] = x })

KeysOf(list) == { normalize_title(list[i]) : i \in DOMAIN list }

HasDistinctKeys(list) == Cardinality(KeysOf(list)) = Len(list)

ScriptFields(matches) == [i \in DOMAIN matches |-> matches[i].script]

FilmFields(matches) == [i \in DOMAIN matches |-> matches[i].film]

\* the identifiers of one list that the outputs hold
ScriptOutputs == ScriptFields(results.matches) \o results.unmatched_scripts

FilmOutputs == FilmFields(results.matches) \o results.unmatched_films

\* the identifier of list that comes last among those with the key of list[i]
LastOfKey(list, i) ==
    LET same == { j \in DOMAIN list : normalize_title(list[j]) = normalize_title(list[i]) }
    IN  list[CHOOSE j \in same : \A h \in same : h <= j]

\* C1: every script identifier is the script of exactly one match record or
\* an element of unmatched_scripts, never both and never neither, and every
\* film identifier likewise, also when identifiers share a key.
C1_EveryIdentifierClassifiedOnce ==
    Indexed =>
        /\ \A i \in DOMAIN scripts : Occurrences(ScriptOutputs, scripts[i]) = 1
        /\ \A i \in DOMAIN films : Occurrences(FilmOutputs, films[i]) = 1

\* C2: len(matches) + len(unmatched_scripts) is the number of distinct
\* normalized keys of the script list.
C2_CountsDistinctScriptKeys ==
    Indexed =>
        Len(results.matches) + Len(results.unmatched_scripts)
            = Cardinality(KeysOf(scripts))

C2_Witness ==
    /\ Indexed
    /\ Len(scripts) = 2
    /\ Cardinality(KeysOf(scripts)) = 1
    /\ Len(results.matches) = 1
    /\ results.unmatched_scripts = << >>

\* C3: every match record pairs a script of the script list and a film of
\* the film list whose keys both equal its normalized field; one film and
\* one script with the same key give one match record and nothing unmatched.
C3_MatchesShareKey ==
    Indexed =>
        /\ \A i \in DOMAIN results.matches :
            LET m == results.matches[i] IN
            /\ m.script \in Range(scripts)
            /\ m.film \in Range(films)
            /\ normalize_title(m.script) = m.normalized
            /\ normalize_title(m.film) = m.normalized
        /\ (/\ Len(films) = 1
            /\ Len(scripts) = 1
            /\ normalize_title(films[1]) = normalize_title(scripts[1]))
           => /\ results.matches =
                    << [script |-> scripts[1], film |-> films[1],
                        normalized |-> normalize_title(scripts[1])] >>
              /\ results.unmatched_scripts = << >>
              /\ results.unmatched_films = << >>

C3_Witness ==
    /\ Indexed
    /\ films = << Matrix1999 >>
    /\ scripts = << MatrixLower >>
    /\ results.matches =
          << [script |-> MatrixLower, film |-> Matrix1999, normalized |-> MatrixLower] >>
    /\ results.unmatched_scripts = << >>
    /\ results.unmatched_films = << >>

\* C4: when no script key is a film key and the keys of each list are
\* distinct, there are no matches and the unmatched lists are the input
\* lists; in general a film identifier is in unmatched_films exactly when
\* its key is absent from the script mapping.
C4_UnmatchedFilmsAreTheKeylessFilms ==
    Indexed =>
        /\ (/\ KeysOf(scripts) \cap KeysOf(films) = { }
            /\ HasDistinctKeys(scripts)
            /\ HasDistinctKeys(films))
           => /\ results.matches = << >>
              /\ results.unmatched_scripts = scripts
              /\ results.unmatched_films = films
        /\ \A i \in DOMAIN films :
            films[i] \in Range(results.unmatched_films)
                <=> normalize_title(films[i]) \notin KeysOf(scripts)

\* C5: match_percentage is len(matches) / total_scripts * 100 with
\* total_scripts the length of the script list, 0 when the list is empty,
\* and no run divides by zero.
C5_PercentageNeverDividesByZero ==
    /\ exc # "ZeroDivisionError"
    /\ Indexed =>
        LET p == results.stats.match_percentage IN
        /\ results.stats.total_scripts = Len(scripts)
        /\ p.den # 0
        /\ p.num * results.stats.total_scripts
              = Len(results.matches) * 100 * p.den
        /\ scripts = << >> => p.num = 0

C5_Witness ==
    /\ Indexed
    /\ scripts = << >>
    /\ films # << >>
    /\ results.stats.match_percentage.num = 0
    /\ results.stats.match_percentage.den # 0

\* the run wrote the whole report
ReportWritten == pc \in { "returned", "done" } /\ exc = ""

\* C6: in the written report matches, sample_unmatched_scripts and
\* sample_unmatched_films have at most 10 entries, each the first
\* min(10, n) entries of the full list, and summary has the full counts.
C6_ReportArraysCapped ==
    ReportWritten =>
        /\ IsCompleteReport(reportFile)
        /\ \A a \in { "matches", "sample_unmatched_scripts", "sample_unmatched_films" } :
            Len(Member(reportFile, a)) <= SampleCap
        /\ Member(reportFile, "matches") = Take(results.matches, SampleCap)
        /\ Member(reportFile, "sample_unmatched_scripts")
              = Take(results.unmatched_scripts, SampleCap)
        /\ Member(reportFile, "sample_unmatched_films")
              = Take(results.unmatched_films, SampleCap)
        /\ Member(reportFile, "summary").matches_found = Len(results.matches)
        /\ Member(reportFile, "summary").total_scripts = Len(scripts)
        /\ Member(reportFile, "summary").total_films = Len(films)

C6_Witness ==
    /\ ReportWritten
    /\ Len(results.matches) > SampleCap
    /\ Len(Member(reportFile, "matches")) = SampleCap
    /\ Member(reportFile, "summary").matches_found > SampleCap

\* C9: of the identifiers of one list that share a key, the last one alone is
\* in the outputs, once, and the key has exactly one output entry.
C9_LastIdentifierOfKeyWins ==
    Indexed =>
        /\ \A i \in DOMAIN scripts :
            /\ Occurrences(ScriptOutputs, LastOfKey(scripts, i)) = 1
            /\ scripts[i] # LastOfKey(scripts, i)
                  => Occurrences(ScriptOutputs, scripts[i]) = 0
            /\ Cardinality({ j \in DOMAIN ScriptOutputs :
                    normalize_title(ScriptOutputs[j]) = normalize_title(scripts[i]) }) = 1
        /\ \A i \in DOMAIN films :
            /\ Occurrences(FilmOutputs, LastOfKey(films, i)) = 1
            /\ films[i] # LastOfKey(films, i)
                  => Occurrences(FilmOutputs, films[i]) = 0
            /\ Cardinality({ j \in DOMAIN FilmOutputs :
                    normalize_title(FilmOutputs[j]) = normalize_title(films[i]) }) = 1

C9_Witness ==
    /\ Indexed
    /\ scripts = << MatrixCap, MatrixLower >>
    /\ films = << MatrixLower, Matrix1999 >>
    /\ results.matches =
          << [script |-> MatrixLower, film |-> Matrix1999, normalized |-> MatrixLower] >>
    /\ results.unmatched_scripts = << >>
    /\ results.unmatched_films = << >>

\* C10: a run that fails prints one error line and no completion message,
\* repeats no step, and leaves the report file as it was before the run or
\* holding a complete report.
C10_FailureLeavesNoPartialReport ==
    (pc = "done" /\ exc # "") =>
        /\ Occurrences(console, "ERROR") = 1
        /\ Occurrences(console, "COMPLETED") = 0
        /\ Occurrences(console, "HEADER") <= 1
        /\ Occurrences(console, "RESULTS") <= 1
        /\ reportFile = reportBefore \/ IsCompleteReport(reportFile)

====
